---- MODULE Spec2Model ----
(***************************************************************************)
(* A model of flexlm_analysis.py: read_files (line matcher and date        *)
(* tracker), deduplicate, do_some_stats (the stats fold), do_gnuplot_stats *)
(* and print_gnuplot (the time-series fold and its reversal), and main.    *)
(*                                                                         *)
(* Python strings that are concatenated or lower-cased are modelled as     *)
(* sequences of one-character strings, so that the dedup key               *)
(* module + ":" + user + "@" + machine is a real concatenation and         *)
(* state.lower() a real character map.  A date 'Y/M/D' is the sequence     *)
(* <<Y, M, D>>; '' is <<>>.                                                *)
(***************************************************************************)
EXTENDS Integers, Sequences, FiniteSets

\* ------------------------------------------------------------------------
\* Bounds of the model
\* ------------------------------------------------------------------------
MaxEvents == 4        \* events folded by do_some_stats in SpecStats
MaxSeries == 4        \* events folded in lock step in SpecSeries
MaxLines  == 4        \* lines read by read_files, all files together
MaxFiles  == 2        \* files given on the command line

\* ------------------------------------------------------------------------
\* Strings
\* ------------------------------------------------------------------------
CheckOut == <<"O", "U", "T">>
CheckIn  == <<"I", "N">>
Denied   == <<"D", "E", "N", "I", "E", "D">>
lit_out  == <<"o", "u", "t">>      \* the literal 'out' of the source
lit_in   == <<"i", "n">>           \* the literal 'in' of the source

\* str.lower() on one character
LowerChar(c) ==
    CASE c = "O" -> "o" [] c = "U" -> "u" [] c = "T" -> "t"
      [] c = "I" -> "i" [] c = "N" -> "n" [] c = "D" -> "d"
      [] c = "E" -> "e" [] c = "A" -> "a" [] OTHER -> c

\* str.lower()
Lower(s) == [k \in DOMAIN s |-> LowerChar(s[k])]

UNKNOWN_DATE == <<"??", "??", "????">>    \* '??/??/????'
NO_DATE      == <<>>                      \* ''
XXXXXXX      == <<"XXXXXXX">>             \* 'XXXXXXX'
D1           == <<"2012", "7", "30">>     \* '2012/7/30'
D2           == <<"2012", "7", "31">>     \* '2012/7/31'
\* 999999999999 in the source; any value above every reachable count acts
\* the same, and this one fits the integers of the model checker
MIN_UNSET    == 999999999

\* module, user and machine names the event-line pattern can capture:
\* "(.+)" for the module, (\w+) for the user, (.+) for the machine
A_   == <<"A">>                           \* module  A
A_u_ == <<"A", ":", "u", "@">>            \* module  A:u@
u_   == <<"u">>                           \* user    u
h_   == <<"h">>                           \* machine h
_u_h == <<":", "u", "@", "h">>            \* machine :u@h

\* the (module, user, machine) triples of the event lines fed to the folds
Triples == { <<A_, u_, h_>>, <<A_, u_, _u_h>>, <<A_u_, u_, h_>> }
Modules == { t[1] : t \in Triples }
States  == { CheckOut, CheckIn, Denied }
Dates   == { UNKNOWN_DATE, D1, D2 }

\* the tuple (date, time, state, module, user, machine) of result_list
Event(date, time, state, t) ==
    [date |-> date, time |-> time, state |-> state,
     module |-> t[1], user |-> t[2], machine |-> t[3]]

\* ------------------------------------------------------------------------
\* deduplicate
\* ------------------------------------------------------------------------
\* module_user_machine = module + ":" + user + "@" + machine
DedupKey(module, user, machine) ==
    module \o <<":">> \o user \o <<"@">> \o machine

\* a variant of deduplicate that never records a checkout
deduplicate_never_adds(sd, state, module, user, machine) ==
    LET module_user_machine == DedupKey(module, user, machine) IN
    IF Lower(state) = lit_out
    THEN IF module_user_machine \in sd
         THEN [ret |-> TRUE,  stats_dedup |-> sd]
         ELSE [ret |-> FALSE, stats_dedup |-> sd]
    ELSE IF Lower(state) = lit_in
    THEN IF module_user_machine \in sd
         THEN [ret |-> FALSE, stats_dedup |-> sd \ {module_user_machine}]
         ELSE [ret |-> TRUE,  stats_dedup |-> sd]
    ELSE [ret |-> FALSE, stats_dedup |-> sd]

\* a variant of deduplicate that keeps every CheckIn
deduplicate_keeps_checkin(sd, state, module, user, machine) ==
    LET module_user_machine == DedupKey(module, user, machine) IN
    IF Lower(state) = lit_out
    THEN IF module_user_machine \in sd
         THEN [ret |-> TRUE,  stats_dedup |-> sd]
         ELSE [ret |-> FALSE, stats_dedup |-> sd \cup {module_user_machine}]
    ELSE IF Lower(state) = lit_in
    THEN [ret |-> FALSE, stats_dedup |-> sd \ {module_user_machine}]
    ELSE [ret |-> FALSE, stats_dedup |-> sd]

\* [ret |-> the value returned, stats_dedup |-> the set afterwards]
deduplicate(sd, state, module, user, machine) ==
    LET module_user_machine == DedupKey(module, user, machine) IN
    IF Lower(state) = lit_out
    THEN IF module_user_machine \in sd
         THEN [ret |-> TRUE,  stats_dedup |-> sd]
         ELSE [ret |-> FALSE, stats_dedup |-> sd \cup {module_user_machine}]
    ELSE IF Lower(state) = lit_in
    THEN IF module_user_machine \in sd
         THEN [ret |-> FALSE, stats_dedup |-> sd \ {module_user_machine}]
         ELSE [ret |-> TRUE,  stats_dedup |-> sd]
    ELSE [ret |-> FALSE, stats_dedup |-> sd]

\* ------------------------------------------------------------------------
\* The stats fold
\* ------------------------------------------------------------------------
\* the tuple stored in stats[module] for a new module
NewStats ==
    [max_users |-> 0, min_users |-> MIN_UNSET, max_day |-> NO_DATE,
     nb_users |-> 0, total_use |-> 0, nb_days |-> 0, old_date |-> XXXXXXX]

InList(x, l) == \E k \in DOMAIN l : l[k] = x

\* [stats |-> , module_list |-> ] after the call; the value returned is
\* stats[module] of the result
get_stats_from_module(st, ml, module) ==
    IF ~InList(module, ml)
    THEN [stats |-> [m \in DOMAIN st \cup {module} |->
                        IF m = module THEN NewStats ELSE st[m]],
          module_list |-> Append(ml, module)]
    ELSE [stats |-> st, module_list |-> ml]

\* a variant of count_users_upon_state that counts a CheckIn as a use
count_users_counts_checkin(state, nb_users, total_use) ==
    IF Lower(state) = lit_out
    THEN [nb_users |-> nb_users + 1, total_use |-> total_use + 1]
    ELSE IF Lower(state) = lit_in
    THEN [nb_users |-> nb_users - 1, total_use |-> total_use + 1]
    ELSE [nb_users |-> nb_users, total_use |-> total_use]

\* (nb_users, total_use)
count_users_upon_state(state, nb_users, total_use) ==
    IF Lower(state) = lit_out
    THEN [nb_users |-> nb_users + 1, total_use |-> total_use + 1]
    ELSE IF Lower(state) = lit_in
    THEN [nb_users |-> nb_users - 1, total_use |-> total_use]
    ELSE [nb_users |-> nb_users, total_use |-> total_use]

\* a variant of get_min_max_users that moves max_day to the latest peak
get_min_max_users_latest_day(nb_users, min_users, max_users, date, max_day) ==
    LET mx == IF nb_users > 0 /\ nb_users >= max_users
              THEN [max_users |-> nb_users, max_day |-> date]
              ELSE [max_users |-> max_users, max_day |-> max_day]
        mn == IF nb_users >= 0 /\ nb_users < min_users
              THEN nb_users ELSE min_users
    IN  [min_users |-> mn, max_users |-> mx.max_users, max_day |-> mx.max_day]

\* a variant of get_min_max_users that never lowers min_users
get_min_max_users_keeps_min(nb_users, min_users, max_users, date, max_day) ==
    LET mx == IF nb_users > 0 /\ nb_users > max_users
              THEN [max_users |-> nb_users, max_day |-> date]
              ELSE [max_users |-> max_users, max_day |-> max_day]
    IN  [min_users |-> min_users, max_users |-> mx.max_users,
         max_day |-> mx.max_day]

\* (min_users, max_users, max_day)
get_min_max_users(nb_users, min_users, max_users, date, max_day) ==
    LET mx == IF nb_users > 0 /\ nb_users > max_users
              THEN [max_users |-> nb_users, max_day |-> date]
              ELSE [max_users |-> max_users, max_day |-> max_day]
        mn == IF nb_users >= 0 /\ nb_users < min_users
              THEN nb_users ELSE min_users
    IN  [min_users |-> mn, max_users |-> mx.max_users, max_day |-> mx.max_day]

\* One iteration of the loop of do_some_stats on the locals
\* L = [stats_dedup, stats, module_list]; kept tells whether the iteration
\* went past the 'continue'.
StatsIter(L, data) ==
    LET dd == deduplicate(L.stats_dedup, data.state, data.module,
                          data.user, data.machine)
    IN  IF dd.ret
        THEN [stats_dedup |-> dd.stats_dedup, stats |-> L.stats,
              module_list |-> L.module_list, kept |-> FALSE]
        ELSE
          LET g    == get_stats_from_module(L.stats, L.module_list, data.module)
              t    == g.stats[data.module]
              day  == IF data.date # t.old_date /\ Lower(data.state) = lit_out
                      THEN [nb_days |-> t.nb_days + 1, old_date |-> data.date]
                      ELSE [nb_days |-> t.nb_days, old_date |-> t.old_date]
              c    == count_users_upon_state(data.state, t.nb_users, t.total_use)
              mm   == get_min_max_users(c.nb_users, t.min_users, t.max_users,
                                        data.date, t.max_day)
              new  == [max_users |-> mm.max_users, min_users |-> mm.min_users,
                       max_day |-> mm.max_day, nb_users |-> c.nb_users,
                       total_use |-> c.total_use, nb_days |-> day.nb_days,
                       old_date |-> day.old_date]
          IN  [stats_dedup |-> dd.stats_dedup,
               stats |-> [g.stats EXCEPT ![data.module] = new],
               module_list |-> g.module_list, kept |-> TRUE]

\* ------------------------------------------------------------------------
\* State
\* ------------------------------------------------------------------------
VARIABLES
    pc,             \* where the run is
    out,            \* Options.out: "None", "stat" or "gnuplot"
    nfiles,         \* len(files)
    a_file,         \* number of files opened so far
    nlines,         \* lines read so far, all files together
    date,           \* read_files: date
    old_date,       \* read_files: old_date
    date_matched,   \* read_files: date_matched
    nb_days,        \* read_files: nb_days
    result_list,    \* read_files: result_list
    i,              \* do_some_stats: events of result_list consumed
    stats_dedup,    \* do_some_stats: stats_dedup
    stats,          \* do_some_stats: stats
    module_list,    \* do_some_stats: module_list
    data,           \* the tuple bound by the last iteration of do_some_stats
    kept,           \* whether that iteration went past the 'continue'
    acc,            \* per module, what do_some_stats let through so far
    seen,           \* per module, the nb_users observed after those events
    j,              \* do_gnuplot_stats: events of result_list consumed
    g_stats_dedup,  \* do_gnuplot_stats: stats_dedup
    g_stats,        \* do_gnuplot_stats: stats (per module, newest entry first)
    g_module_list,  \* do_gnuplot_stats: module_list
    g_kept,         \* whether its last iteration went past the 'continue'
    g_acc,          \* per module, what do_gnuplot_stats let through so far
    g_seq,          \* per module, (date, time) of the events it let through
    dat,            \* print_gnuplot: the lines written to each <module>.dat
    line,           \* the line read_files read last
    last_ts,        \* date of the last TIMESTAMP line read in the open file
    boot,           \* the date the start-date line has set
    report          \* print_stats: what is printed, module per module

readVars  == <<nfiles, a_file, nlines, date, old_date, date_matched, nb_days,
               result_list, line, last_ts, boot>>
statsVars == <<i, stats_dedup, stats, module_list, data, kept, acc, seen>>
plotVars  == <<j, g_stats_dedup, g_stats, g_module_list, g_kept, g_acc, g_seq,
               dat>>
vars      == <<pc, out, readVars, statsVars, plotVars, report>>

NONE == <<>>         \* an unbound local

IsOut(state) == Lower(state) = lit_out
IsIn(state)  == Lower(state) = lit_in

\* what a fold let through, per module: number of check-outs, number of
\* check-ins, the dates of the check-outs
NoneAccepted ==
    [m \in Modules |-> [outs |-> 0, ins |-> 0, dates |-> {}]]

Accept(a, ev) ==
    [a EXCEPT ![ev.module] =
        [outs  |-> IF IsOut(ev.state) THEN @.outs + 1 ELSE @.outs,
         ins   |-> IF IsIn(ev.state) THEN @.ins + 1 ELSE @.ins,
         dates |-> IF IsOut(ev.state) THEN @.dates \cup {ev.date} ELSE @.dates]]

\* the nb_users observed after the events a fold let through, per module:
\* the largest one above 0 (0 if none) and the date of the first event that
\* reached it ('' if none), the smallest one that is not negative (-1 if
\* none)
NoneSeen ==
    [m \in Modules |-> [peak |-> 0, peak_day |-> NO_DATE, low |-> -1]]

Observe(o, ev, nb) ==
    [o EXCEPT ![ev.module] =
        [peak     |-> IF nb > @.peak THEN nb ELSE @.peak,
         peak_day |-> IF nb > @.peak THEN ev.date ELSE @.peak_day,
         low      |-> IF nb >= 0 /\ (@.low = -1 \/ nb < @.low)
                      THEN nb ELSE @.low]]

StatsLocals == [stats_dedup |-> stats_dedup, stats |-> stats,
                module_list |-> module_list]

\* one iteration of 'for data in result_list' of do_some_stats, on ev
do_some_stats_iter(ev) ==
    LET r == StatsIter(StatsLocals, ev) IN
    /\ stats_dedup' = r.stats_dedup
    /\ stats' = r.stats
    /\ module_list' = r.module_list
    /\ data' = ev
    /\ kept' = r.kept
    /\ acc' = IF r.kept THEN Accept(acc, ev) ELSE acc
    /\ seen' = IF r.kept
               THEN Observe(seen, ev, r.stats[ev.module].nb_users)
               ELSE seen
    /\ i' = i + 1

StatsInit ==
    /\ i = 0
    /\ stats_dedup = {}
    /\ stats = <<>>
    /\ module_list = <<>>
    /\ data = NONE
    /\ kept = FALSE
    /\ acc = NoneAccepted
    /\ seen = NoneSeen

\* ------------------------------------------------------------------------
\* The time-series fold
\* ------------------------------------------------------------------------
\* line 307 compares the method state.lower with 'in', which is never equal;
\* that branch would assign 0 as well
init_use_upon_state(state) ==
    IF Lower(state) = lit_out THEN 1 ELSE 0

\* a variant of update_use_value_upon_state with a bare else for 'in'
update_use_value_upon_state_else_in(state, use) ==
    IF Lower(state) = lit_out THEN use + 1
    ELSE use - 1

update_use_value_upon_state(state, use) ==
    IF Lower(state) = lit_out THEN use + 1
    ELSE IF Lower(state) = lit_in THEN use - 1
    ELSE use

\* list.insert(0, x)
Prepend(x, l) == <<x>> \o l

\* list.reverse()
Reverse(l) == [k \in 1..Len(l) |-> l[Len(l) + 1 - k]]

\* One iteration of the loop of do_gnuplot_stats on the locals
\* L = [stats_dedup, stats, module_list]
GnuplotIter(L, ev) ==
    LET dd == deduplicate(L.stats_dedup, ev.state, ev.module, ev.user,
                          ev.machine)
    IN  IF dd.ret
        THEN [stats_dedup |-> dd.stats_dedup, stats |-> L.stats,
              module_list |-> L.module_list, kept |-> FALSE]
        ELSE
          LET isnew == ~InList(ev.module, L.module_list)
              ml == IF isnew THEN Append(L.module_list, ev.module)
                    ELSE L.module_list
              st == IF isnew
                    THEN [m \in DOMAIN L.stats \cup {ev.module} |->
                             IF m = ev.module THEN <<>> ELSE L.stats[m]]
                    ELSE L.stats
              event_list == st[ev.module]
              use == IF event_list = <<>>
                     THEN init_use_upon_state(ev.state)
                     ELSE update_use_value_upon_state(ev.state,
                                                      event_list[1][3])
          IN  [stats_dedup |-> dd.stats_dedup,
               stats |-> [st EXCEPT ![ev.module] =
                             Prepend(<<ev.date, ev.time, use>>, event_list)],
               module_list |-> ml, kept |-> TRUE]

GnuplotLocals == [stats_dedup |-> g_stats_dedup, stats |-> g_stats,
                  module_list |-> g_module_list]

NoSeq == [m \in Modules |-> <<>>]

\* one iteration of 'for data in result_list' of do_gnuplot_stats, on ev
do_gnuplot_stats_iter(ev) ==
    LET r == GnuplotIter(GnuplotLocals, ev) IN
    /\ g_stats_dedup' = r.stats_dedup
    /\ g_stats' = r.stats
    /\ g_module_list' = r.module_list
    /\ g_kept' = r.kept
    /\ g_acc' = IF r.kept THEN Accept(g_acc, ev) ELSE g_acc
    /\ g_seq' = IF r.kept
                THEN [g_seq EXCEPT ![ev.module] =
                         Append(@, <<ev.date, ev.time>>)]
                ELSE g_seq
    /\ j' = j + 1

\* the data files of print_gnuplot: every list of stats is reversed in place
\* and written out, one line per entry
print_gnuplot_files ==
    /\ g_stats' = [m \in DOMAIN g_stats |-> Reverse(g_stats[m])]
    /\ dat' = [m \in DOMAIN g_stats |-> Reverse(g_stats[m])]

PlotInit ==
    /\ j = 0
    /\ g_stats_dedup = {}
    /\ g_stats = <<>>
    /\ g_module_list = <<>>
    /\ g_kept = FALSE
    /\ g_acc = NoneAccepted
    /\ g_seq = NoSeq
    /\ dat = <<>>

ReadIdle ==
    /\ nfiles = 0 /\ a_file = 0 /\ nlines = 0
    /\ date = NONE /\ old_date = NONE /\ date_matched = FALSE
    /\ nb_days = 0 /\ result_list = <<>>
    /\ line = NONE /\ last_ts = NONE /\ boot = NONE
    /\ report = <<>>

\* ------------------------------------------------------------------------
\* print_stats
\* ------------------------------------------------------------------------
\* what print_stats prints for one module
StatsLines(name) ==
    LET t == stats[name] IN
    [name |-> name, max |-> t.max_users, max_day |-> t.max_day,
     min |-> IF t.max_users = 0 THEN 0 ELSE t.min_users,
     total_use |-> t.total_use, nb_use_days |-> t.nb_days,
     nb_days |-> nb_days,
     average |-> IF t.nb_days > 0 THEN t.total_use \div t.nb_days ELSE NONE]

\* what print_stats prints, module per module of name_list
print_stats_report ==
    [k \in 1..Len(module_list) |-> StatsLines(module_list[k])]

\* ------------------------------------------------------------------------
\* SpecStats: do_some_stats on every event list of at most MaxEvents events
\* ------------------------------------------------------------------------
\* the events read_files can put at position k of result_list; the time of
\* day of the k-th event line is taken to be k
EventsAt(k) == { Event(d, k, s, t) : d \in Dates, s \in States, t \in Triples }

InitStats == pc = "stats" /\ out = "stat" /\ ReadIdle /\ StatsInit /\ PlotInit

FoldStats ==
    /\ pc = "stats"
    /\ i < MaxEvents
    /\ \E ev \in EventsAt(i + 1) : do_some_stats_iter(ev)
    /\ UNCHANGED <<pc, out, readVars, plotVars, report>>

\* the list ends here: do_some_stats returns and print_stats prints
FoldPrint ==
    /\ pc = "stats"
    /\ report' = print_stats_report
    /\ pc' = "done"
    /\ UNCHANGED <<out, readVars, statsVars, plotVars>>

NextStats == FoldStats \/ FoldPrint

SpecStats == InitStats /\ [][NextStats]_vars

\* ------------------------------------------------------------------------
\* SpecSeries: do_some_stats and do_gnuplot_stats run in lock step on the
\* same event list of at most MaxSeries events, then print_gnuplot
\* ------------------------------------------------------------------------
SeriesDates == { UNKNOWN_DATE, D1 }

SeriesEventsAt(k) ==
    { Event(d, k, s, t) : d \in SeriesDates, s \in States, t \in Triples }

InitSeries == pc = "series" /\ out = "gnuplot" /\ ReadIdle /\ StatsInit /\ PlotInit

\* do_some_stats takes the next event of the list
SeriesStats ==
    /\ pc = "series"
    /\ i = j
    /\ i < MaxSeries
    /\ \E ev \in SeriesEventsAt(i + 1) : do_some_stats_iter(ev)
    /\ UNCHANGED <<pc, out, readVars, plotVars, report>>

\* do_gnuplot_stats takes the same event
SeriesGnuplot ==
    /\ pc = "series"
    /\ j < i
    /\ do_gnuplot_stats_iter(data)
    /\ UNCHANGED <<pc, out, readVars, statsVars, dat, report>>

\* the list ends here: print_gnuplot writes the data files
SeriesPrint ==
    /\ pc = "series"
    /\ i = j
    /\ print_gnuplot_files
    /\ pc' = "done"
    /\ UNCHANGED <<out, readVars, statsVars, j, g_stats_dedup, g_module_list,
                   g_kept, g_acc, g_seq, report>>

NextSeries == SeriesStats \/ SeriesGnuplot \/ SeriesPrint

SpecSeries == InitSeries /\ [][NextSeries]_vars

\* ------------------------------------------------------------------------
\* Spec: one run of the program, from the command line to the output
\* ------------------------------------------------------------------------
\* A line is what the three patterns of read_files capture from it (NONE
\* where a pattern does not match): the groups (M, D, Y) of the start-date
\* pattern, the groups of the event pattern, the groups (M, D, Y) of the
\* TIMESTAMP pattern.
G1 == <<"7", "30", "2012">>      \* 7/30/2012
G2 == <<"7", "31", "2012">>      \* 7/31/2012

StartLine(g) == [start |-> g, event |-> NONE, ts |-> NONE]
StampLine(g) == [start |-> NONE, event |-> NONE, ts |-> g]
EventLine(state, t) ==
    [start |-> NONE,
     event |-> [state |-> state, module |-> t[1], user |-> t[2],
                machine |-> t[3]],
     ts |-> NONE]
OtherLine == [start |-> NONE, event |-> NONE, ts |-> NONE]

\* 8:21:20 (lmgrd) OUT: "A" u@h (7/31/2012): the event pattern takes
\* 'h (7/31/2012)' for the machine, and the start-date pattern matches too
h_7_31_2012 ==
    <<"h", " ", "(", "7", "/", "3", "1", "/", "2", "0", "1", "2", ")">>

DatedEventLine ==
    [start |-> G2,
     event |-> [state |-> CheckOut, module |-> A_, user |-> u_,
                machine |-> h_7_31_2012],
     ts |-> NONE]

Lines ==
    { StartLine(G1), StartLine(G2), StampLine(G1), StampLine(G2), OtherLine,
      EventLine(CheckOut, <<A_, u_, h_>>), EventLine(CheckIn, <<A_, u_, h_>>),
      EventLine(CheckOut, <<A_, u_, _u_h>>), DatedEventLine }

\* '%s/%s/%s' % (res.group(3), res.group(1), res.group(2))
FormatDate(g) == <<g[3], g[1], g[2]>>

\* Options: out after the two flags were looked at, --stats last
Options_out(opt_gnuplot, opt_stats) ==
    LET out1 == IF opt_gnuplot THEN "gnuplot" ELSE "None"
    IN  IF opt_stats THEN "stat" ELSE out1

Init ==
    /\ pc = "open"
    /\ out \in {Options_out(g, s) : g \in BOOLEAN, s \in BOOLEAN}
    /\ nfiles \in 1..MaxFiles
    /\ a_file = 0 /\ nlines = 0
    /\ date = NONE /\ old_date = NONE /\ date_matched = FALSE
    /\ nb_days = 0 /\ result_list = <<>>
    /\ line = NONE /\ last_ts = NONE /\ boot = NONE
    /\ report = <<>>
    /\ StatsInit /\ PlotInit

\* read_files: the next file is opened
OpenFile ==
    /\ pc = "open"
    /\ a_file' = a_file + 1
    /\ date' = UNKNOWN_DATE
    /\ old_date' = NO_DATE
    /\ last_ts' = NONE
    /\ pc' = "lines"
    /\ UNCHANGED <<out, nfiles, nlines, date_matched, nb_days, result_list,
                   line, boot, statsVars, plotVars, report>>

\* a variant of on_timestamp that forgets to remember the date it counted
on_timestamp_forgets(old, days, g) ==
    LET d == FormatDate(g) IN
    IF d # old
    THEN [date |-> d, nb_days |-> days + 1, old_date |-> old]
    ELSE [date |-> d, nb_days |-> days, old_date |-> old]

\* read_files, on a line the TIMESTAMP pattern matches: (date, nb_days,
\* old_date) afterwards
on_timestamp(old, days, g) ==
    LET d == FormatDate(g) IN
    IF d # old
    THEN [date |-> d, nb_days |-> days + 1, old_date |-> d]
    ELSE [date |-> d, nb_days |-> days, old_date |-> old]

\* a variant of start_date_matches that tries the pattern on every line
start_date_matches_again(matched, l) == l.start # NONE

\* read_files: the start-date pattern is tried, and matches
start_date_matches(matched, l) == matched = FALSE /\ l.start # NONE

\* read_files: one line l of the open file; its time of day is taken to be
\* the number of the line in the run
ReadLine(l) ==
    LET time     == nlines + 1
        starts   == start_date_matches(date_matched, l)
        date1    == IF starts THEN FormatDate(l.start) ELSE date
        isevent  == l.event # NONE
        isstamp  == ~isevent /\ l.ts # NONE
        after    == IF isstamp
                    THEN on_timestamp(old_date, nb_days, l.ts)
                    ELSE [date |-> date1, nb_days |-> nb_days,
                          old_date |-> old_date]
    IN  /\ pc = "lines"
        /\ nlines < MaxLines
        /\ nlines' = nlines + 1
        /\ line' = l
        /\ date_matched' = (date_matched \/ starts)
        /\ boot' = IF starts THEN date1 ELSE boot
        /\ result_list' =
              IF isevent
              THEN Append(result_list,
                          [date |-> date1, time |-> time,
                           state |-> l.event.state, module |-> l.event.module,
                           user |-> l.event.user, machine |-> l.event.machine])
              ELSE result_list
        /\ date' = after.date
        /\ nb_days' = after.nb_days
        /\ old_date' = after.old_date
        /\ last_ts' = IF isstamp THEN after.date ELSE last_ts
        /\ UNCHANGED <<pc, out, nfiles, a_file, statsVars, plotVars, report>>

\* read_files: the open file ends; the next one is opened, or the function
\* returns (nb_days, result_list) and its other locals are gone
CloseFile ==
    /\ pc = "lines"
    /\ IF a_file < nfiles
       THEN /\ pc' = "open"
            /\ UNCHANGED <<date, old_date, date_matched, last_ts, line, boot>>
       ELSE /\ pc' = "main"
            /\ date' = NONE /\ old_date' = NONE /\ date_matched' = FALSE
            /\ last_ts' = NONE /\ line' = NONE /\ boot' = NONE
    /\ UNCHANGED <<out, nfiles, a_file, nlines, nb_days, result_list,
                   statsVars, plotVars, report>>

\* a variant of what_to_do that is content with one event
what_to_do_with_one_event(len, o, days) ==
    IF len >= 1
    THEN IF o = "stat" THEN "stats"
         ELSE IF o = "gnuplot" /\ days > 0 THEN "gnuplot"
         ELSE "done"
    ELSE "done"

\* a variant of what_to_do that does not look at nb_days
what_to_do_without_days(len, o, days) ==
    IF len > 1
    THEN IF o = "stat" THEN "stats"
         ELSE IF o = "gnuplot" THEN "gnuplot"
         ELSE "done"
    ELSE "done"

\* main: the function called upon len(result_list), out and nb_days
what_to_do(len, o, days) ==
    IF len > 1
    THEN IF o = "stat" THEN "stats"
         ELSE IF o = "gnuplot" /\ days > 0 THEN "gnuplot"
         ELSE "done"
    ELSE "done"

\* main: what to do upon the options
Main ==
    /\ pc = "main"
    /\ pc' = what_to_do(Len(result_list), out, nb_days)
    /\ UNCHANGED <<out, readVars, statsVars, plotVars, report>>

\* output_stats: one iteration of the loop of do_some_stats
DoSomeStats ==
    /\ pc = "stats"
    /\ i < Len(result_list)
    /\ do_some_stats_iter(result_list[i + 1])
    /\ UNCHANGED <<pc, out, readVars, plotVars, report>>

\* output_stats: do_some_stats returns and print_stats prints
PrintStats ==
    /\ pc = "stats"
    /\ i = Len(result_list)
    /\ report' = print_stats_report
    /\ pc' = "done"
    /\ UNCHANGED <<out, readVars, statsVars, plotVars>>

\* output_gnuplot: one iteration of the loop of do_gnuplot_stats
DoGnuplotStats ==
    /\ pc = "gnuplot"
    /\ j < Len(result_list)
    /\ do_gnuplot_stats_iter(result_list[j + 1])
    /\ UNCHANGED <<pc, out, readVars, statsVars, dat, report>>

\* output_gnuplot: do_gnuplot_stats returns and print_gnuplot writes
PrintGnuplot ==
    /\ pc = "gnuplot"
    /\ j = Len(result_list)
    /\ print_gnuplot_files
    /\ pc' = "done"
    /\ UNCHANGED <<out, readVars, statsVars, j, g_stats_dedup, g_module_list,
                   g_kept, g_acc, g_seq, report>>

Next ==
    \/ OpenFile
    \/ \E l \in Lines : ReadLine(l)
    \/ CloseFile
    \/ Main
    \/ DoSomeStats
    \/ PrintStats
    \/ DoGnuplotStats
    \/ PrintGnuplot

Spec == Init /\ [][Next]_vars

\* ------------------------------------------------------------------------
\* Claims about the stats fold (checked under SpecStats)
\* ------------------------------------------------------------------------
KeyOf(ev) == DedupKey(ev.module, ev.user, ev.machine)

SameCheckOut(e1, e2) ==
    /\ e1.state = e2.state /\ e1.module = e2.module
    /\ e1.user = e2.user /\ e1.machine = e2.machine

\* a step of the fold: one more event of result_list has been consumed
Folded == i' = i + 1

\* C1: after every processed event, the running count nb_users of every
\* module is >= 0.
C1_NeverNegative ==
    \A m \in DOMAIN stats : stats[m].nb_users >= 0

\* C2: a CheckOut whose key is already in stats_dedup is dropped and changes
\* neither stats_dedup nor any module's counters; a key leaves stats_dedup
\* only by a CheckIn of that key; so the same checkout replayed at once is
\* dropped, and replayed as the second event it leaves total_use = 1 and
\* nb_users = 1.
C2_DuplicateCheckOutDropped ==
    [][ Folded =>
          /\ \A k \in stats_dedup \ stats_dedup' :
                IsIn(data'.state) /\ KeyOf(data') = k
          /\ IsOut(data'.state) =>
                /\ KeyOf(data') \in stats_dedup =>
                      /\ ~kept'
                      /\ stats_dedup' = stats_dedup
                      /\ stats' = stats
                      /\ module_list' = module_list
                /\ (i >= 1 /\ SameCheckOut(data, data')) =>
                      /\ ~kept'
                      /\ stats' = stats
                /\ (i = 1 /\ SameCheckOut(data, data')) =>
                      /\ stats'[data'.module].total_use = 1
                      /\ stats'[data'.module].nb_users = 1
      ]_vars

\* a checkout was replayed as the second event and dropped
C2_Witness ==
    /\ i = 2 /\ IsOut(data.state) /\ ~kept
    /\ data.module \in DOMAIN stats
    /\ stats[data.module].total_use = 1
    /\ KeyOf(data) \in stats_dedup

\* C3: a CheckIn is kept iff its key is in stats_dedup when it is processed;
\* keeping it removes the key; dropping it changes neither stats_dedup nor
\* any counter; a CheckIn right after a CheckOut of the same key is kept.
C3_CheckInKeptIffOpen ==
    [][ (Folded /\ IsIn(data'.state)) =>
          /\ kept' <=> (KeyOf(data') \in stats_dedup)
          /\ kept' => stats_dedup' = stats_dedup \ {KeyOf(data')}
          /\ ~kept' =>
                /\ stats_dedup' = stats_dedup
                /\ stats' = stats
                /\ module_list' = module_list
          /\ (i >= 1 /\ IsOut(data.state) /\ KeyOf(data) = KeyOf(data')) => kept'
      ]_vars

\* a CheckIn was kept and took its key out of stats_dedup
C3_Witness ==
    /\ i >= 2 /\ IsIn(data.state) /\ kept
    /\ KeyOf(data) \notin stats_dedup

\* C4: at every point of the fold, total_use of a module is the number of
\* CheckOut events of that module that passed deduplicate so far (a module
\* without a record counts as 0); the count never decreases, so neither
\* does total_use.
C4_TotalUseCountsAccepted ==
    \A m \in Modules :
        (IF m \in DOMAIN stats THEN stats[m].total_use ELSE 0) = acc[m].outs

\* two checkouts were counted and a third one was dropped
C4_Witness ==
    /\ i >= 3 /\ IsOut(data.state) /\ ~kept
    /\ data.module \in DOMAIN stats
    /\ stats[data.module].total_use = 2

\* C5: nb_days of a module is the number of distinct dates on which a
\* CheckOut of that module passed deduplicate.
C5_DaysUsedDistinctDates ==
    \A m \in DOMAIN stats : stats[m].nb_days = Cardinality(acc[m].dates)

\* C11: max_users of a module is the largest nb_users it had after an
\* accepted event (0 if none was above 0), and max_day the date of the
\* first event at which nb_users reached that value ('' while it is 0).
C11_PeakAndItsDay ==
    \A m \in DOMAIN stats :
        /\ stats[m].max_users = seen[m].peak
        /\ stats[m].max_day = seen[m].peak_day
        /\ stats[m].max_users = 0 => stats[m].max_day = NO_DATE

\* the peak was reached a second time, on another date than the first time
C11_Witness ==
    /\ i >= 3 /\ kept /\ IsOut(data.state)
    /\ stats[data.module].nb_users = stats[data.module].max_users
    /\ stats[data.module].max_day # data.date

\* C12: the min printed for a module is never the unset value: it is the
\* smallest nb_users >= 0 the module had after an accepted event, and 0
\* when max_users is 0; a CheckOut followed by its CheckIn on a known date
\* prints max 1, min 0, total use 1, days used 1.
C12_ReportedMin ==
    pc = "done" =>
        /\ \A k \in DOMAIN report :
              /\ report[k].min # MIN_UNSET
              /\ report[k].min = IF report[k].max = 0 THEN 0
                                 ELSE seen[report[k].name].low
        /\ ( /\ i = 2 /\ IsIn(data.state) /\ kept
             /\ acc[data.module].outs = 1
             /\ Cardinality({m \in Modules : acc[m].outs + acc[m].ins > 0}) = 1 )
           => /\ Len(report) = 1
              /\ report[1].max = 1 /\ report[1].min = 0
              /\ report[1].total_use = 1 /\ report[1].nb_use_days = 1

\* the report of a CheckOut and its CheckIn was printed
C12_Witness ==
    /\ pc = "done" /\ i = 2 /\ IsIn(data.state) /\ kept
    /\ Len(report) = 1 /\ report[1].min = 0 /\ report[1].max = 1

\* ------------------------------------------------------------------------
\* Claims about the time-series fold (checked under SpecSeries)
\* ------------------------------------------------------------------------
\* the concurrency of entry k of a list of (date, time, use) entries
UseOf(l, k) == l[k][3]

\* C8: the series written for a module has one entry per event the fold let
\* through for that module, in the order of the input, and the concurrency
\* of its last entry is the number of accepted CheckOuts minus the number of
\* accepted CheckIns of that module.
C8_SeriesInInputOrder ==
    pc = "done" =>
        \A m \in DOMAIN dat :
            /\ Len(dat[m]) = Len(g_seq[m])
            /\ \A k \in 1..Len(dat[m]) :
                  <<dat[m][k][1], dat[m][k][2]>> = g_seq[m][k]
            /\ Len(dat[m]) > 0 =>
                  UseOf(dat[m], Len(dat[m])) = g_acc[m].outs - g_acc[m].ins

\* C9: on the same event list both folds let the same events through, from
\* dedup sets of their own, and after each such event the newest entry of
\* the module's series carries the nb_users of the stats fold.
C9_FoldsAgree ==
    (pc = "series" /\ i = j /\ i >= 1) =>
        /\ g_kept = kept
        /\ g_stats_dedup = stats_dedup
        /\ kept => UseOf(g_stats[data.module], 1) = stats[data.module].nb_users

\* C10: the first event let through for a module sets its concurrency to 1
\* if it is a CheckOut and to 0 otherwise; each later one changes it by +1
\* (CheckOut) or -1 (CheckIn); no entry of any series is negative.
C10_SeriesConcurrency ==
    [][ (j' = j + 1 /\ g_kept') =>
          LET m   == data.module
              new == UseOf(g_stats'[m], 1)
          IN  /\ m \notin DOMAIN g_stats =>
                    new = IF IsOut(data.state) THEN 1 ELSE 0
              /\ m \in DOMAIN g_stats =>
                    /\ IsOut(data.state) => new = UseOf(g_stats[m], 1) + 1
                    /\ IsIn(data.state) => new = UseOf(g_stats[m], 1) - 1
              /\ \A f \in DOMAIN g_stats' :
                    \A k \in 1..Len(g_stats'[f]) : UseOf(g_stats'[f], k) >= 0
      ]_vars

\* ------------------------------------------------------------------------
\* Claims about read_files (checked under Spec)
\* ------------------------------------------------------------------------
\* the step that reads a line on which only the TIMESTAMP branch runs
ReadsStamp ==
    /\ nlines' = nlines + 1
    /\ line'.event = NONE
    /\ line'.ts # NONE

\* C6: date tracking does not see file boundaries: opening the next file
\* keeps the current date (the date its first event lines get) and keeps
\* the date the next TIMESTAMP line is compared with.
C6_DateCarriesOver ==
    [][ (pc = "open" /\ a_file >= 1 /\ pc' = "lines") =>
          /\ date' = date
          /\ old_date' = old_date
      ]_vars

\* C7 as stated: on a TIMESTAMP line, nb_days is incremented and the current
\* date updated if the line's date differs from the current date, and
\* nothing changes if it equals the current date.
C7_StampAgainstCurrentDate ==
    [][ ReadsStamp =>
          LET d == FormatDate(line'.ts) IN
          IF d # date
          THEN nb_days' = nb_days + 1 /\ date' = d
          ELSE nb_days' = nb_days /\ date' = date
      ]_vars

\* C7 as amended: on a TIMESTAMP line the current date becomes the line's
\* date, and nb_days is incremented by one iff that date differs from the
\* date of the previous TIMESTAMP line of the same file (always on the
\* first TIMESTAMP line of a file); the start-date line takes no part in
\* the comparison.
C7_StampAgainstLastStamp ==
    [][ ReadsStamp =>
          LET d == FormatDate(line'.ts) IN
          /\ date' = d
          /\ nb_days' = IF d # last_ts THEN nb_days + 1 ELSE nb_days
      ]_vars

\* a TIMESTAMP line carrying the date of the start-date line before it was
\* read, and it was counted as a day
C7_Witness ==
    /\ pc = "lines" /\ nlines = 2
    /\ line.event = NONE /\ line.ts # NONE
    /\ boot = date
    /\ nb_days = 1

\* C13: with at most one parsed event nothing is output: main ends without
\* a step of do_some_stats or do_gnuplot_stats, without a report and without
\* data files.
C13_NothingForOneEvent ==
    (pc \in {"stats", "gnuplot", "done"} /\ Len(result_list) <= 1) =>
        /\ pc = "done"
        /\ i = 0 /\ j = 0
        /\ report = <<>> /\ dat = <<>>

\* a run that asked for stats or for the plot ended with one event parsed
C13_Witness ==
    /\ pc = "done" /\ Len(result_list) = 1 /\ out # "None"

\* C14: with out = 'gnuplot' and nb_days = 0 after the files are read,
\* output_gnuplot is not called, however many events there are: no step of
\* do_gnuplot_stats, no file written; and no run has both the report of
\* print_stats and the files of print_gnuplot.
C14_NoPlotWithoutDays ==
    /\ (pc \in {"stats", "gnuplot", "done"} /\ out = "gnuplot" /\ nb_days = 0)
          => (pc = "done" /\ j = 0 /\ dat = <<>>)
    /\ pc = "stats" => out = "stat"
    /\ pc = "gnuplot" => out = "gnuplot"
    /\ i = 0 \/ j = 0
    /\ report = <<>> \/ dat = <<>>

\* the plot was asked for, events were parsed, no TIMESTAMP line was seen
C14_Witness ==
    /\ pc = "done" /\ out = "gnuplot" /\ nb_days = 0
    /\ Len(result_list) >= 2

\* C15: once a start-date line has set date, no later line matching the
\* start-date pattern sets it, in the same file or in a later one.
C15_StartDateOnce ==
    [][ ( /\ nlines' = nlines + 1
          /\ date_matched
          /\ line'.start # NONE
          /\ line'.ts = NONE )
        => (date' = date /\ boot' = boot /\ date_matched') ]_vars

\* a second start-date line, of another date, was read and ignored
C15_Witness ==
    /\ pc = "lines" /\ date_matched
    /\ line # NONE /\ line.start # NONE /\ line.event = NONE
    /\ boot # FormatDate(line.start)

\* C16: an event line is recorded with the date that was current when the
\* line was read and changes neither date nor nb_days; the events are
\* appended in line order and never modified afterwards.
C16_EventLineKeepsDate ==
    [][ /\ ( /\ nlines' = nlines + 1 /\ line'.event # NONE )
            => /\ date' = date
               /\ nb_days' = nb_days
               /\ result_list' =
                     Append(result_list,
                            [date |-> date, time |-> nlines',
                             state |-> line'.event.state,
                             module |-> line'.event.module,
                             user |-> line'.event.user,
                             machine |-> line'.event.machine])
        /\ ( nlines' = nlines + 1 /\ line'.event = NONE )
            => result_list' = result_list
        /\ nlines' = nlines => result_list' = result_list ]_vars

\* ------------------------------------------------------------------------
\* Claims about the keys of stats_dedup and the counters of a module
\* ------------------------------------------------------------------------
SameTriple(e1, e2) ==
    e1.module = e2.module /\ e1.user = e2.user /\ e1.machine = e2.machine

\* the (user, machine) pairs of the input
Pairs == {<<t[2], t[3]>> : t \in Triples}

\* nb_users of a module, 0 while it has no record
NbUsers(m) == IF m \in DOMAIN stats THEN stats[m].nb_users ELSE 0

\* C17: two events have the same key in stats_dedup if and only if they have
\* the same module, user and machine, so that a CheckIn following an accepted
\* CheckOut is let through only if it is of the same triple.
C17_KeyedByTriple ==
    [][ (Folded /\ i >= 1) =>
          /\ (KeyOf(data) = KeyOf(data')) <=> SameTriple(data, data')
          /\ (i = 1 /\ kept /\ IsOut(data.state) /\ IsIn(data'.state))
                => (kept' <=> SameTriple(data, data')) ]_vars

\* C18: nb_users of a module is the number of (user, machine) pairs whose
\* key for that module is in stats_dedup, hence at most the number of pairs
\* the input has for the module.
C18_UsersAreOpenKeys ==
    \A m \in Modules :
        /\ NbUsers(m) =
              Cardinality({p \in Pairs : DedupKey(m, p[1], p[2]) \in stats_dedup})
        /\ NbUsers(m) <= Cardinality({t \in Triples : t[1] = m})

\* C19: every module with a record has min_users <= nb_users <= max_users,
\* max_users >= 1 iff total_use >= 1 iff nb_days >= 1, and
\* nb_days <= total_use.
C19_CountersOrdered ==
    \A m \in DOMAIN stats :
        /\ stats[m].min_users <= stats[m].nb_users
        /\ stats[m].nb_users <= stats[m].max_users
        /\ (stats[m].max_users >= 1) <=> (stats[m].total_use >= 1)
        /\ (stats[m].total_use >= 1) <=> (stats[m].nb_days >= 1)
        /\ stats[m].nb_days <= stats[m].total_use

\* ------------------------------------------------------------------------
\* Claim about the events that are neither CheckOut nor CheckIn
\* ------------------------------------------------------------------------
IsOther(state) == ~IsOut(state) /\ ~IsIn(state)

\* a counter of a module in do_some_stats, 0 while it has no record
Counters(st, m) ==
    IF m \in DOMAIN st
    THEN <<st[m].nb_users, st[m].total_use, st[m].nb_days, st[m].max_users>>
    ELSE <<0, 0, 0, 0>>

\* the concurrency of the latest entry of a module in do_gnuplot_stats, 0
\* while it has none
LatestUse(st, m) ==
    IF m \in DOMAIN st /\ st[m] # <<>> THEN UseOf(st[m], 1) ELSE 0

EntriesOf(st, m) == IF m \in DOMAIN st THEN Len(st[m]) ELSE 0

\* C20: an event whose state is neither OUT nor IN is never dropped, leaves
\* stats_dedup and nb_users, total_use, nb_days and max_users of every
\* module as they are, and in do_gnuplot_stats adds one entry to its module
\* with the concurrency of the entry before (0 if it is the first).
C20_OtherStatesPassThrough ==
    [][ /\ (Folded /\ IsOther(data'.state)) =>
              /\ kept'
              /\ stats_dedup' = stats_dedup
              /\ \A m \in Modules : Counters(stats', m) = Counters(stats, m)
        /\ (j' = j + 1 /\ IsOther(data.state)) =>
              /\ g_kept'
              /\ g_stats_dedup' = g_stats_dedup
              /\ EntriesOf(g_stats', data.module)
                    = EntriesOf(g_stats, data.module) + 1
              /\ LatestUse(g_stats', data.module)
                    = LatestUse(g_stats, data.module)
              /\ \A m \in Modules \ {data.module} :
                    EntriesOf(g_stats', m) = EntriesOf(g_stats, m) ]_vars

\* a DENIED event went through both folds while a checkout of its module
\* was open
C20_Witness ==
    /\ pc = "series" /\ i = j /\ i >= 2
    /\ IsOther(data.state) /\ kept /\ g_kept
    /\ stats[data.module].nb_users = 1
    /\ LatestUse(g_stats, data.module) = 1


====
